---- MODULE Spec2Model ----
(***************************************************************************)
(* Model of server.js: the /extract handler (participant collection,       *)
(* contact resolution, classification, per-group error isolation) and the  *)
(* /export handler (validation, directory creation, file writing).         *)
(*                                                                         *)
(* JavaScript values are tagged records.  JavaScript strings that the code *)
(* searches or rewrites (participant ids, names) are sequences of          *)
(* one-character strings, so that includes() and replace() are computed.   *)
(***************************************************************************)
EXTENDS Integers, Sequences, FiniteSets, TLC

\* ------------------------------------------------------------------ bounds
\* longest selectedGroups array a request carries
MaxGroups == 2
\* longest participant container drawn for the collection step
MaxParts == 2
\* longest export payload array
MaxPayload == 2

\* ------------------------------------------------------- JavaScript values
Null == [t |-> "null"]
Undef == [t |-> "undefined"]
Str(s) == [t |-> "string", s |-> s]
Num(n) == [t |-> "number", n |-> n]
\* an object with the two properties the code reads: .id and ._serialized
Obj(id, ser) == [t |-> "object", id |-> id, serialized |-> ser]

\* JavaScript truthiness (the values of this model)
Truthy(v) ==
  CASE v.t = "null" -> FALSE
    [] v.t = "undefined" -> FALSE
    [] v.t = "string" -> v.s # <<>>
    [] v.t = "number" -> v.n # 0
    [] OTHER -> TRUE

IsString(v) == v.t = "string"

\* a || b
Or(a, b) == IF Truthy(a) THEN a ELSE b

\* v.id and v._serialized on a truthy value: undefined on a primitive
PropId(v) == IF v.t = "object" THEN v.id ELSE Undef
PropSerialized(v) == IF v.t = "object" THEN v.serialized ELSE Undef

\* ----------------------------------------------------------- string helpers
\* the phone-number tag
Tag == <<"@", "c", ".", "u", "s">>

\* positions at which t occurs in s
Occurrences(s, t) ==
  {i \in 1..(Len(s) - Len(t) + 1) : SubSeq(s, i, i + Len(t) - 1) = t}

\* String.prototype.includes
Includes(s, t) == Occurrences(s, t) # {}

\* String.prototype.replace with a string pattern: the first occurrence only
Replace(s, t, r) ==
  IF Occurrences(s, t) = {} THEN s
  ELSE LET i == CHOOSE k \in Occurrences(s, t) : \A m \in Occurrences(s, t) : k <= m
       IN SubSeq(s, 1, i - 1) \o r \o SubSeq(s, i + Len(t), Len(s))

\* Array.prototype.filter
Filter(seq, Keep(_)) == SelectSeq(seq, Keep)

\* Array.prototype.map
Map(seq, F(_)) == [i \in 1..Len(seq) |-> F(seq[i])]

\* [...new Set(seq)]: the first occurrence of each value, in order
Unique(seq) ==
  LET RECURSIVE Go(_, _)
      Go(rest, acc) ==
        IF rest = <<>> THEN acc
        ELSE IF \E i \in 1..Len(acc) : acc[i] = Head(rest)
             THEN Go(Tail(rest), acc)
             ELSE Go(Tail(rest), Append(acc, Head(rest)))
  IN Go(seq, <<>>)

\* ------------------------------------------------------- getParticipantId
getParticipantId(part) ==
  IF ~Truthy(part) THEN Null
  ELSE IF IsString(part) THEN part
  ELSE IF Truthy(PropId(part)) /\ IsString(PropSerialized(PropId(part)))
       THEN PropSerialized(PropId(part))
  ELSE IF Truthy(PropSerialized(part)) /\ IsString(PropSerialized(part))
       THEN PropSerialized(part)
  ELSE Null

\* --------------------------------------------------- participant containers
\* chat.participants: an array, an object with a keys() function (a Map or
\* Collection: what keys() and values() iterate), a plain object (what
\* Object.values gives), or a value that is no object
Arr(items) == [t |-> "array", items |-> items]
MapLike(keys, vals) == [t |-> "maplike", keys |-> keys, vals |-> vals]
Plain(vals) == [t |-> "plain", vals |-> vals]

Chat(name, participants, groupMetadata) ==
  [t |-> "chat", name |-> name, participants |-> participants,
   groupMetadata |-> groupMetadata]
Meta(participants) == [t |-> "meta", participants |-> participants]

\* what JavaScript throws on chat.participants when chat is undefined
NullChatError ==
  [name |-> "TypeError", message |-> "Cannot read properties of undefined"]

\* lines 150-173: rawParticipants of a fetched chat, or the error thrown
CollectCandidates(chat) ==
  LET p == chat.participants IN
  IF p.t = "array" THEN Map(p.items, getParticipantId)
  ELSE IF p.t = "maplike"
       THEN IF Len(p.keys) = 0 THEN Map(p.vals, getParticipantId) ELSE p.keys
  ELSE IF p.t = "plain" THEN Map(p.vals, getParticipantId)
  ELSE IF Truthy(chat.groupMetadata) /\ chat.groupMetadata.participants.t = "array"
       THEN Map(chat.groupMetadata.participants.items, getParticipantId)
  ELSE <<>>

CollectNoDedupe(chat) ==
  IF chat.t # "chat" THEN [ok |-> FALSE, err |-> NullChatError]
  ELSE [ok |-> TRUE, ids |-> Filter(CollectCandidates(chat), Truthy)]
Collect(chat) ==
  IF chat.t # "chat" THEN [ok |-> FALSE, err |-> NullChatError]
  ELSE [ok |-> TRUE, ids |-> Unique(Filter(CollectCandidates(chat), Truthy))]

\* ------------------------------------------------- the messaging account
\* group ids the operator can select
G1 == <<"G", "1">>
G2 == <<"G", "2">>
G3 == <<"G", "3">>
GroupIds == {G1, G2, G3}

\* participant ids of the account
IdPhone == <<"1", "@", "c", ".", "u", "s">>
IdHidden == <<"2", "@", "l", "i", "d">>
IdDouble == <<"3", "@", "c", ".", "u", "s", "@", "c", ".", "u", "s">>

\* the chats getChatById can resolve with: G1 holds an array of participant
\* objects and strings with a repeated and a missing member, G2 a keyed
\* collection one of whose keys is no string, G3 is no chat of the account
HasChat(gid) == gid \in {G1, G2}
ChatsDb(gid) ==
  IF gid = G1
  THEN Chat(Str(<<"F", "a", "m">>),
            Arr(<<Obj(Obj(Undef, Str(IdPhone)), Undef), Str(IdHidden), Null,
                  Obj(Undef, Str(IdPhone))>>),
            Undef)
  ELSE Chat(Undef, MapLike(<<Str(IdDouble), Num(42)>>, <<>>), Undef)

\* the contact getContactById resolves with when it succeeds
Contact(pushname, name, number) ==
  [t |-> "contact", pushname |-> pushname, name |-> name, number |-> number]
ContactsDb(id) ==
  IF id = IdPhone THEN Contact(Str(<<"A", "l">>), Str(<<"A", "l", "i">>), Str(<<"1">>))
  ELSE IF id = IdHidden THEN Contact(Undef, Str(<<>>), Undef)
  ELSE Contact(Str(<<>>), Undef, Str(<<"3">>))

\* the reasons a collaborator call rejects with
NotFoundError == [name |-> "Error", message |-> "Evaluation failed"]
NetworkError == [name |-> "Error", message |-> ""]

\* how client.getChatById(gid) can settle
FetchOutcomes(gid) ==
  IF HasChat(gid)
  THEN {[ok |-> TRUE, chat |-> ChatsDb(gid)], [ok |-> FALSE, err |-> NetworkError]}
  ELSE {[ok |-> TRUE, chat |-> Undef], [ok |-> FALSE, err |-> NotFoundError]}

\* String(err) of an Error: a string written as its pieces, none of them empty
ErrMessageOnly(err) == IF err.message = "" THEN <<>> ELSE <<err.message>>
ErrToString(err) ==
  IF err.message = "" THEN <<err.name>>
  ELSE IF err.name = "" THEN <<err.message>>
  ELSE <<err.name, ": ", err.message>>

\* ------------------------------------------------------ contact resolution
\* line 181: the display name of a resolved contact
DisplayName(contact) ==
  IF contact.t # "contact" THEN Null
  ELSE Or(Or(Or(contact.pushname, contact.name),
             IF Truthy(contact.number) THEN contact.number ELSE Null),
          Null)

\* lines 180-183: the .then handler
OnLookupFulfilled(id, contact) == [id |-> id, name |-> DisplayName(contact), ok |-> TRUE]

\* lines 184-187: the .catch handler
OnLookupRejectedDropsId(id) == [id |-> Null, name |-> Null, ok |-> FALSE]
OnLookupRejected(id) == [id |-> id, name |-> Null, ok |-> FALSE]

\* line 178 and line 194: the entry of an id that is no string
NoId == [id |-> Null, name |-> Null, ok |-> FALSE]

Pending == [st |-> "pending"]
Fulfilled(value, how) == [st |-> "fulfilled", value |-> value, how |-> how]

\* lines 176-188: the promise made for one collected id
LaunchLookup(id) == IF ~IsString(id) THEN Fulfilled(NoId, "nonstring") ELSE Pending

\* line 191: Promise.allSettled resumes the handler once no promise is pending
AllSettledOnlyIfAllOk(ls) == \A i \in 1..Len(ls) : ls[i].st = "fulfilled" /\ ls[i].how # "fail"
AllSettledFirstOnly(ls) == Len(ls) = 0 \/ \E i \in 1..Len(ls) : ls[i].st # "pending"
AllSettled(ls) == \A i \in 1..Len(ls) : ls[i].st # "pending"

\* lines 192-195
SettledValue(l) == IF l.st = "fulfilled" THEN l.value ELSE NoId
HasId(p) == Truthy(p.id)
IsOk(p) == p.ok
ParticipantsResolvedOnlyOk(ls) == Filter(Map(ls, SettledValue), IsOk)
ParticipantsResolved(ls) == Filter(Map(ls, SettledValue), HasId)

\* ------------------------------------------------------------ classification
\* lines 202-212: the entry pushed to allEntries for one resolved participant
ClassifyEntryKeepsTag(p, gid, gName) ==
  LET id == p.id.s
      displayName == Or(p.name, Null)
  IN IF Includes(id, Tag)
     THEN [groupId |-> gid, groupName |-> gName, name |-> Or(displayName, Str(id)).s,
           number |-> id, id |-> id, type |-> "number"]
     ELSE [groupId |-> gid, groupName |-> gName, name |-> Or(displayName, Str(id)).s,
           id |-> id, type |-> "hidden"]
ClassifyEntry(p, gid, gName) ==
  LET id == p.id.s
      displayName == Or(p.name, Null)
  IN IF Includes(id, Tag)
     THEN LET cleanNumber == Replace(id, Tag, <<>>)
          IN [groupId |-> gid, groupName |-> gName,
              name |-> Or(displayName, Str(cleanNumber)).s,
              number |-> cleanNumber, id |-> id, type |-> "number"]
     ELSE [groupId |-> gid, groupName |-> gName, name |-> Or(displayName, Str(id)).s,
           id |-> id, type |-> "hidden"]

IsNumber(x) == x.type = "number"
IsHidden(x) == x.type = "hidden"

\* lines 206 and 210: the per-group views of an entry
NumberView(e) == [number |-> e.number, name |-> e.name]
HiddenView(e) == [id |-> e.id, name |-> e.name]

\* lines 215-220 and line 226
GroupResult(gid, gName, entries) ==
  [groupId |-> gid, groupName |-> gName,
   numbers |-> Map(Filter(entries, IsNumber), NumberView),
   hiddenIds |-> Map(Filter(entries, IsHidden), HiddenView)]
ErrorResult(gid, err) ==
  [groupId |-> gid, groupName |-> gid, numbers |-> <<>>, hiddenIds |-> <<>>,
   error |-> ErrToString(err)]

\* lines 230-237
RenderMembersHiddenUnfiltered(results, entries) ==
  [kind |-> "render", perGroupResults |-> results,
   combined |-> [all |-> entries, numbers |-> Filter(entries, IsNumber), hidden |-> entries]]
RenderMembers(results, entries) ==
  [kind |-> "render", perGroupResults |-> results,
   combined |-> [all |-> entries, numbers |-> Filter(entries, IsNumber),
                 hidden |-> Filter(entries, IsHidden)]]
Redirect(to) == [kind |-> "redirect", to |-> to]
NoResponse == [kind |-> "none"]

\* ------------------------------------------------------------------- state
VARIABLES
  isAuthenticated,      \* line 20
  pc,                   \* where the /extract handler is: idle, fetching, resolving, done
  selectedGroups,       \* line 136-138, as an array
  idx,                  \* position of the for loop of line 144 (1-based)
  gName,                \* line 147
  rawParticipants,      \* line 151-173
  contactPromises,      \* line 176: the state of each promise
  inflight,             \* getContactById calls issued and not yet settled: <<idx, i>>
  participantsResolved, \* line 192
  allEntries,           \* line 140
  perGroupResults,      \* line 142
  response,             \* what the /extract handler answered
  log,                  \* per processed group: did it fail, which lookups succeeded
  prev,                 \* the previous render of the same selection, if any
  exportPc,             \* where the /export handler is
  exportReq,            \* req.body of the /export request
  fsOps,                \* file-system operations the /export handler performed
  exportRes,            \* what the /export handler answered
  collectIn,            \* a chat handed to the collection step
  collectOut            \* what the collection step gave for it

extractVars ==
  <<pc, selectedGroups, idx, gName, rawParticipants, contactPromises, inflight,
    participantsResolved, allEntries, perGroupResults, response, log, prev>>
exportVars == <<exportPc, exportReq, fsOps, exportRes>>
collectVars == <<collectIn, collectOut>>
vars == <<isAuthenticated, extractVars, exportVars, collectVars>>

NoPrev == [kind |-> "none"]
NoChat == [t |-> "none"]

\* sequences over S of length at most n
SeqsUpTo(S, n) == UNION {[1..k -> S] : k \in 0..n}

\* req.body.selectedGroups: absent, one value (a group id or the empty string),
\* or an array of group ids
Single(g) == [t |-> "string", s |-> g]
Selections ==
  {Undef} \cup {Single(g) : g \in GroupIds \cup {<<>>}}
          \cup {Arr(a) : a \in SeqsUpTo(GroupIds, MaxGroups)}

InitExtract ==
  /\ pc = "idle"
  /\ selectedGroups = <<>>
  /\ idx = 0
  /\ gName = <<>>
  /\ rawParticipants = <<>>
  /\ contactPromises = <<>>
  /\ inflight = {}
  /\ participantsResolved = <<>>
  /\ allEntries = <<>>
  /\ perGroupResults = <<>>
  /\ response = NoResponse
  /\ log = <<>>
  /\ prev = NoPrev

InitExport ==
  /\ exportPc = "idle"
  /\ exportReq = Undef
  /\ fsOps = <<>>
  /\ exportRes = NoResponse

InitCollect ==
  /\ collectIn = NoChat
  /\ collectOut = NoChat

Init ==
  /\ isAuthenticated = FALSE
  /\ InitExtract
  /\ InitExport
  /\ InitCollect

\* ------------------------------------------------------- session events
\* lines 33-41.  ok: whether qrcode.toDataURL gave the image
OnQr(ok) ==
  /\ isAuthenticated' = IF ok THEN FALSE ELSE isAuthenticated
  /\ UNCHANGED <<extractVars, exportVars, collectVars>>
\* lines 44-48
OnReady == isAuthenticated' = TRUE /\ UNCHANGED <<extractVars, exportVars, collectVars>>
\* lines 51-54
OnAuthFailure == isAuthenticated' = FALSE /\ UNCHANGED <<extractVars, exportVars, collectVars>>
\* lines 57-60
OnDisconnected == isAuthenticated' = FALSE /\ UNCHANGED <<extractVars, exportVars, collectVars>>

\* ------------------------------------------------------------ POST /extract
\* the request-scoped locals of a handler that answered without a loop
ClearLocals ==
  /\ selectedGroups' = <<>>
  /\ idx' = 0
  /\ gName' = <<>>
  /\ rawParticipants' = <<>>
  /\ contactPromises' = <<>>
  /\ participantsResolved' = <<>>
  /\ allEntries' = <<>>
  /\ perGroupResults' = <<>>
  /\ log' = <<>>

\* the end of one iteration of the for loop of line 144, with the group's
\* result pushed: the next iteration calls getChatById, the last one renders
NextGroupSkipsRest(results, entries) ==
  /\ perGroupResults' = results
  /\ allEntries' = entries
  /\ IF idx < Len(selectedGroups) /\ "error" \notin DOMAIN results[Len(results)]
     THEN pc' = "fetching" /\ idx' = idx + 1 /\ response' = response
     ELSE pc' = "done" /\ idx' = idx /\ response' = RenderMembers(results, entries)
  /\ UNCHANGED <<selectedGroups, prev>>
NextGroup(results, entries) ==
  /\ perGroupResults' = results
  /\ allEntries' = entries
  /\ IF idx < Len(selectedGroups)
     THEN pc' = "fetching" /\ idx' = idx + 1 /\ response' = response
     ELSE pc' = "done" /\ idx' = idx /\ response' = RenderMembers(results, entries)
  /\ UNCHANGED <<selectedGroups, prev>>

\* lines 224-227: the catch block
OnGroupError(gid, err) ==
  NextGroup(Append(perGroupResults, ErrorResult(gid, err)), allEntries)

\* lines 133-146: the handler up to its first await.  track: whether the
\* render being replaced is kept for comparison when the selection repeats
PostExtract(sel, track) ==
  /\ pc \in {"idle", "done"}
  /\ inflight' = inflight
  /\ IF ~isAuthenticated
     THEN /\ response' = Redirect("/")
          /\ pc' = "done"
          /\ prev' = NoPrev
          /\ ClearLocals
     ELSE IF ~Truthy(sel)
     THEN /\ response' = Redirect("/groups")
          /\ pc' = "done"
          /\ prev' = NoPrev
          /\ ClearLocals
     ELSE LET groups == IF sel.t = "array" THEN sel.items ELSE <<sel.s>>
          IN /\ selectedGroups' = groups
             /\ prev' = IF track /\ response.kind = "render" /\ selectedGroups = groups
                        THEN [kind |-> "render", all |-> response.combined.all, log |-> log]
                        ELSE NoPrev
             /\ allEntries' = <<>>
             /\ perGroupResults' = <<>>
             /\ log' = <<>>
             /\ gName' = <<>>
             /\ rawParticipants' = <<>>
             /\ contactPromises' = <<>>
             /\ participantsResolved' = <<>>
             /\ IF groups = <<>>
                THEN pc' = "done" /\ idx' = 0 /\ response' = RenderMembers(<<>>, <<>>)
                ELSE pc' = "fetching" /\ idx' = 1 /\ response' = NoResponse
  /\ UNCHANGED <<isAuthenticated, exportVars, collectVars>>

\* the getContactById calls line 179 issues for the collected ids
Issued(ids) == {<<idx, i>> : i \in {j \in 1..Len(ids) : IsString(ids[j])}}

\* lines 146-191: getChatById settles; the handler runs to the await of
\* line 191, or to the catch block
GetChatSettles(outcome) ==
  /\ pc = "fetching"
  /\ LET gid == selectedGroups[idx] IN
     /\ outcome \in FetchOutcomes(gid)
     /\ IF ~outcome.ok
        THEN /\ OnGroupError(gid, outcome.err)
             /\ log' = Append(log, [failed |-> TRUE, ok |-> {}])
             /\ UNCHANGED <<gName, rawParticipants, contactPromises, inflight, participantsResolved>>
        ELSE LET chat == outcome.chat
                 c == Collect(chat)
             IN IF ~c.ok
                THEN /\ OnGroupError(gid, c.err)
                     /\ log' = Append(log, [failed |-> TRUE, ok |-> {}])
                     /\ gName' = gid
                     /\ UNCHANGED <<rawParticipants, contactPromises, inflight, participantsResolved>>
                ELSE /\ gName' = Or(chat.name, Str(gid)).s
                     /\ rawParticipants' = c.ids
                     /\ contactPromises' = Map(c.ids, LaunchLookup)
                     /\ inflight' = inflight \cup Issued(c.ids)
                     /\ participantsResolved' = <<>>
                     /\ pc' = "resolving"
                     /\ UNCHANGED <<selectedGroups, idx, allEntries, perGroupResults,
                                    response, log, prev>>
  /\ UNCHANGED <<isAuthenticated, exportVars, collectVars>>

\* lines 179-187: one getContactById call settles and its handler runs
ContactSettles(tok, how) ==
  /\ tok \in inflight
  /\ inflight' = inflight \ {tok}
  /\ IF pc = "resolving" /\ tok[1] = idx /\ tok[2] <= Len(contactPromises)
        /\ contactPromises[tok[2]].st = "pending"
     THEN LET id == rawParticipants[tok[2]]
              value == IF how = "ok" THEN OnLookupFulfilled(id, ContactsDb(id.s))
                       ELSE OnLookupRejected(id)
          IN contactPromises' = [contactPromises EXCEPT ![tok[2]] = Fulfilled(value, how)]
     ELSE contactPromises' = contactPromises
  /\ UNCHANGED <<isAuthenticated, pc, selectedGroups, idx, gName, rawParticipants,
                 participantsResolved, allEntries, perGroupResults, response, log, prev,
                 exportVars, collectVars>>

\* lines 191-222: Promise.allSettled resumes the handler, which classifies the
\* resolved participants and pushes the group's result
OkIds == {rawParticipants[i] : i \in {j \in 1..Len(contactPromises) :
            contactPromises[j].st = "fulfilled" /\ contactPromises[j].how = "ok"}}
ResumeAfterAllSettled ==
  /\ pc = "resolving"
  /\ AllSettled(contactPromises)
  /\ LET gid == selectedGroups[idx]
         resolved == ParticipantsResolved(contactPromises)
         Classify(p) == ClassifyEntry(p, gid, gName)
         entries == Map(resolved, Classify)
     IN /\ participantsResolved' = resolved
        /\ NextGroup(Append(perGroupResults, GroupResult(gid, gName, entries)),
                     allEntries \o entries)
  /\ log' = Append(log, [failed |-> FALSE, ok |-> OkIds])
  /\ UNCHANGED <<isAuthenticated, gName, rawParticipants, contactPromises, inflight,
                 exportVars, collectVars>>

ExtractNext(track) ==
  \/ \E sel \in Selections : PostExtract(sel, track)
  \/ \E gid \in GroupIds : \E outcome \in FetchOutcomes(gid) : GetChatSettles(outcome)
  \/ \E tok \in inflight : \E how \in {"ok", "fail"} : ContactSettles(tok, how)
  \/ ResumeAfterAllSettled

SessionNext == (\E ok \in BOOLEAN : OnQr(ok)) \/ OnReady \/ OnAuthFailure \/ OnDisconnected

Next == SessionNext \/ ExtractNext(FALSE)

Spec == Init /\ [][Next]_vars

\* the same handler, keeping the render a repeated selection replaces
NextTwice == SessionNext \/ ExtractNext(TRUE)
SpecTwice == Init /\ [][NextTwice]_vars

\* every collaborator call that was issued settles, and a resumed handler runs
FairSpec ==
  /\ Spec
  /\ WF_vars(\E gid \in GroupIds : \E outcome \in FetchOutcomes(gid) : GetChatSettles(outcome))
  /\ WF_vars(\E tok \in inflight : \E how \in {"ok", "fail"} : ContactSettles(tok, how))
  /\ WF_vars(ResumeAfterAllSettled)

\* ------------------------------------------------- the collection step alone
\* raw participant representations: absent, strings, numbers, objects with a
\* nested identifier, with a top-level identifier, with neither
RawParts ==
  {Null, Undef, Str(<<>>), Str(IdPhone), Str(IdHidden), Num(0), Num(42),
   Obj(Obj(Undef, Str(IdPhone)), Undef),
   Obj(Undef, Str(IdHidden)),
   Obj(Str(IdPhone), Undef),
   Obj(Obj(Undef, Num(42)), Str(IdPhone)),
   Obj(Obj(Undef, Str(<<>>)), Str(IdHidden)),
   Obj(Undef, Undef)}

PartSeqs == SeqsUpTo(RawParts, MaxParts)

\* chats of every container shape lines 154-170 tell apart
CollectInputs ==
  {Chat(Undef, Arr(a), Undef) : a \in PartSeqs}
    \cup {Chat(Undef, MapLike(k, v), Undef) : k \in PartSeqs, v \in {<<>>, <<Str(IdHidden)>>}}
    \cup {Chat(Undef, MapLike(<<>>, v), Undef) : v \in PartSeqs}
    \cup {Chat(Undef, Plain(v), Undef) : v \in PartSeqs}
    \cup {Chat(Undef, p, Meta(Arr(a))) : p \in {Undef, Null, Str(IdPhone), Num(0)}, a \in PartSeqs}
    \cup {Chat(Undef, p, m) : p \in {Undef, Null, Str(IdPhone), Num(0)},
                              m \in {Undef, Null, Meta(Undef), Meta(Plain(<<Str(IdPhone)>>))}}
    \cup {Chat(Undef, Arr(a), Meta(Arr(<<Str(IdHidden)>>))) : a \in PartSeqs}

\* lines 150-173 applied to the chat handed in
ApplyCollect ==
  /\ collectIn # NoChat
  /\ collectOut = NoChat
  /\ collectOut' = Collect(collectIn)
  /\ UNCHANGED <<isAuthenticated, extractVars, exportVars, collectIn>>

InitCollectStep ==
  /\ isAuthenticated = FALSE
  /\ InitExtract
  /\ InitExport
  /\ collectIn \in CollectInputs
  /\ collectOut = NoChat

SpecCollect == InitCollectStep /\ [][ApplyCollect]_vars

\* -------------------------------------------------------------- POST /export
LowerChar(c) ==
  CASE c = "C" -> "c" [] c = "S" -> "s" [] c = "V" -> "v" [] c = "X" -> "x"
    [] c = "M" -> "m" [] c = "L" -> "l" [] c = "J" -> "j" [] c = "O" -> "o"
    [] c = "N" -> "n" [] OTHER -> c
\* String.prototype.toLowerCase
ToLowerCase(s) == Map(s, LowerChar)

FmtCsv == <<"c", "s", "v">>
FmtXlsx == <<"x", "l", "s", "x">>
FmtJson == <<"j", "s", "o", "n">>

\* req.body.payload as a JSON text: what JSON.parse gives, or that it throws
JsonText(v) == [t |-> "string", s |-> <<"[">>, parsed |-> v]
BadJsonText == [t |-> "string", s |-> <<"{">>, parsed |-> [t |-> "syntaxerror"]]

ExportRows ==
  {[groupId |-> G1, groupName |-> G1, name |-> <<"A", "l">>, number |-> <<"1">>,
    id |-> IdPhone, type |-> "number"],
   [groupId |-> G1, groupName |-> G1, name |-> IdHidden, id |-> IdHidden, type |-> "hidden"]}

PayloadValues ==
  {Arr(a) : a \in SeqsUpTo(ExportRows, MaxPayload)} \cup {Plain(<<>>), Num(42)}
Payloads ==
  {Undef, Str(<<>>), BadJsonText} \cup PayloadValues \cup {JsonText(v) : v \in PayloadValues}
Formats ==
  {Undef, Str(<<>>), Str(FmtCsv), Str(<<"C", "S", "V">>), Str(FmtXlsx), Str(FmtJson),
   Str(<<"x", "m", "l">>), Num(42)}
ExportRequests == [payload : Payloads, format : Formats]

Status(code, text) == [kind |-> "status", status |-> code, text |-> text]
Download(ext) == [kind |-> "download", file |-> <<"whatsapp-export", ext>>]
\* an exception that leaves the async handler: Express 4 never answers
Unanswered == [kind |-> "unanswered"]

\* lines 252-254: the payload after the JSON.parse of a string payload
ParsedPayload(payload) == IF IsString(payload) THEN payload.parsed ELSE payload

\* line 255
IsNonEmptyArray(v) == v.t = "array" /\ Len(v.items) # 0

\* line 257, for a format toLowerCase is defined on
FormatOf(req) == ToLowerCase(Or(req.format, Str(FmtCsv)).s)

Supported(format) == format \in {FmtCsv, FmtXlsx, FmtJson}

\* lines 246-261: the handler up to the await of fs.ensureDir
PostExport(req) ==
  /\ exportPc \in {"idle", "done"}
  /\ exportReq' = req
  /\ IF ~isAuthenticated
     THEN exportRes' = Status(403, "Not authenticated") /\ exportPc' = "done" /\ fsOps' = <<>>
     ELSE IF ~Truthy(req.payload)
     THEN exportRes' = Status(400, "No payload") /\ exportPc' = "done" /\ fsOps' = <<>>
     ELSE IF ParsedPayload(req.payload).t = "syntaxerror"
     THEN exportRes' = Status(400, "Invalid payload JSON") /\ exportPc' = "done" /\ fsOps' = <<>>
     ELSE IF ~IsNonEmptyArray(ParsedPayload(req.payload))
     THEN /\ exportRes' = Status(400, "Payload must be non-empty array")
          /\ exportPc' = "done" /\ fsOps' = <<>>
     ELSE IF ~IsString(Or(req.format, Str(FmtCsv)))
     THEN exportRes' = Unanswered /\ exportPc' = "done" /\ fsOps' = <<>>
     ELSE exportRes' = NoResponse /\ exportPc' = "ensureDir" /\ fsOps' = <<"ensureDir">>
  /\ UNCHANGED <<isAuthenticated, extractVars, collectVars>>

\* lines 261-294: fs.ensureDir settles; the handler runs to the await of
\* fs.writeFile, or answers.  xlsxOk: whether the synchronous XLSX.writeFile
\* of line 280 returns
EnsureDirSettles(dirOk, xlsxOk) ==
  /\ exportPc = "ensureDir"
  /\ LET format == FormatOf(exportReq) IN
     IF ~dirOk
     THEN exportRes' = Status(500, "Export failed") /\ exportPc' = "done" /\ fsOps' = fsOps
     ELSE IF format = FmtCsv \/ format = FmtJson
     THEN exportRes' = exportRes /\ exportPc' = "writeFile" /\ fsOps' = Append(fsOps, "writeFile")
     ELSE IF format = FmtXlsx
     THEN /\ fsOps' = Append(fsOps, "XLSX.writeFile")
          /\ exportPc' = "done"
          /\ exportRes' = IF xlsxOk THEN Download(format) ELSE Status(500, "Export failed")
     ELSE exportRes' = Status(400, "Unsupported format") /\ exportPc' = "done" /\ fsOps' = fsOps
  /\ UNCHANGED <<isAuthenticated, extractVars, collectVars, exportReq>>

\* lines 269-270 and 287-288: fs.writeFile settles
WriteFileSettles(ok) ==
  /\ exportPc = "writeFile"
  /\ exportPc' = "done"
  /\ exportRes' = IF ok THEN Download(FormatOf(exportReq)) ELSE Status(500, "Export failed")
  /\ UNCHANGED <<isAuthenticated, extractVars, collectVars, exportReq, fsOps>>

ExportNext ==
  \/ \E req \in ExportRequests : PostExport(req)
  \/ \E dirOk \in BOOLEAN : \E xlsxOk \in BOOLEAN : EnsureDirSettles(dirOk, xlsxOk)
  \/ \E ok \in BOOLEAN : WriteFileSettles(ok)

SpecExport == Init /\ [][SessionNext \/ ExportNext]_vars

\* ------------------------------------------------------------------ claims
AsSet(seq) == {seq[i] : i \in 1..Len(seq)}
HasError(r) == "error" \in DOMAIN r

RECURSIVE IsSubseq(_, _)
\* a is b with some elements left out
IsSubseq(a, b) ==
  IF a = <<>> THEN TRUE
  ELSE IF b = <<>> THEN FALSE
  ELSE IF Head(a) = Head(b) THEN IsSubseq(Tail(a), Tail(b))
  ELSE IsSubseq(a, Tail(b))

RECURSIVE SumLens(_)
\* how many number and hidden views the results hold
SumLens(results) ==
  IF results = <<>> THEN 0
  ELSE Len(Head(results).numbers) + Len(Head(results).hiddenIds) + SumLens(Tail(results))

\* C1: while a request is processed and when it is answered, perGroupResults
\* holds exactly one GroupResult per group id handled so far, in the order of
\* the selection; the rendered response holds one per selected group id, so a
\* failed group never aborts or skips the later ones.
C1_OneResultPerGroupInOrder ==
  /\ pc \in {"fetching", "resolving"} =>
       /\ Len(perGroupResults) = idx - 1
       /\ \A i \in 1..Len(perGroupResults) : perGroupResults[i].groupId = selectedGroups[i]
  /\ response.kind = "render" =>
       /\ Len(response.perGroupResults) = Len(selectedGroups)
       /\ \A i \in 1..Len(selectedGroups) :
            response.perGroupResults[i].groupId = selectedGroups[i]

\* a render of two groups whose first group failed and whose second did not
C1_Witness ==
  /\ response.kind = "render"
  /\ Len(selectedGroups) = 2
  /\ HasError(response.perGroupResults[1])
  /\ ~HasError(response.perGroupResults[2])
  /\ response.perGroupResults[2].numbers # <<>>

\* C2: a GroupResult with an error carries a non-empty error string and empty
\* numbers and hiddenIds, and the combined list holds exactly the entries of
\* the groups that were processed without error: as many entries as their
\* results hold views, each of a group id that has an error-free result.
C2_FailedGroupLeavesNoEntries ==
  /\ \A i \in 1..Len(perGroupResults) :
       HasError(perGroupResults[i]) =>
         /\ perGroupResults[i].error # <<>>
         /\ perGroupResults[i].numbers = <<>>
         /\ perGroupResults[i].hiddenIds = <<>>
  /\ Len(allEntries) = SumLens(SelectSeq(perGroupResults, LAMBDA r : ~HasError(r)))
  /\ \A e \in AsSet(allEntries) :
       \E i \in 1..Len(perGroupResults) :
         ~HasError(perGroupResults[i]) /\ perGroupResults[i].groupId = e.groupId

\* a failed group beside a group that contributed entries
C2_Witness ==
  /\ pc = "done"
  /\ \E i \in 1..Len(perGroupResults) : HasError(perGroupResults[i])
  /\ allEntries # <<>>

\* the collected ids that are strings, and the outcome of the lookup of one
StringIds == SelectSeq(rawParticipants, IsString)
HowOf(id) == contactPromises[CHOOSE i \in 1..Len(rawParticipants) : rawParticipants[i] = id].how

\* C3 as stated: once the resolution step of a group has completed it has
\* returned exactly one ResolvedParticipant per id it was handed, a failed
\* lookup's id retained with a null name and ok false.
C3_OnePerInputId ==
  pc # "resolving" =>
    /\ Len(participantsResolved) = Len(rawParticipants)
    /\ \A i \in 1..Len(participantsResolved) :
         /\ participantsResolved[i].id = rawParticipants[i]
         /\ contactPromises[i].how = "fail" =>
              participantsResolved[i].name = Null /\ ~participantsResolved[i].ok

\* C3 amended: once the resolution step of a group has completed it has
\* returned exactly one ResolvedParticipant per handed id that is a string, in
\* the order handed in; the entry of an id whose lookup failed keeps the id
\* with a null name and ok false, the entry of an id whose lookup succeeded
\* has ok true, whatever the sibling lookups did.  An id that is no string
\* has no entry.
C3_OnePerStringId ==
  pc # "resolving" =>
    /\ Len(participantsResolved) = Len(StringIds)
    /\ \A j \in 1..Len(participantsResolved) :
         /\ participantsResolved[j].id = StringIds[j]
         /\ HowOf(StringIds[j]) = "fail" =>
              participantsResolved[j].name = Null /\ ~participantsResolved[j].ok
         /\ HowOf(StringIds[j]) = "ok" => participantsResolved[j].ok

\* a completed batch of two lookups of which exactly one failed
C3_Witness ==
  /\ pc = "done"
  /\ perGroupResults # <<>>
  /\ ~HasError(perGroupResults[Len(perGroupResults)])
  /\ Len(participantsResolved) = 2
  /\ participantsResolved[1].ok
  /\ ~participantsResolved[2].ok
  /\ participantsResolved[2].id = Str(IdHidden)

\* the id carries the phone-number tag
CarriesTag(id) == \E i \in 1..Len(id) : \E j \in i..Len(id) : SubSeq(id, i, j) = Tag
\* n is id with one occurrence of the tag taken out
TagStripped(id, n) ==
  \E i \in 1..Len(id) :
    /\ Len(id) >= i + Len(Tag) - 1
    /\ SubSeq(id, i, i + Len(Tag) - 1) = Tag
    /\ n = SubSeq(id, 1, i - 1) \o SubSeq(id, i + Len(Tag), Len(id))

\* C4: every entry of allEntries has type number or hidden; it has a number
\* field iff its type is number; its type is number iff its id carries the
\* tag "@c.us"; and then number is the id with the tag taken out.
C4_NumberIffTagged ==
  \A e \in AsSet(allEntries) :
    /\ e.type \in {"number", "hidden"}
    /\ ("number" \in DOMAIN e) <=> (e.type = "number")
    /\ (e.type = "number") <=> CarriesTag(e.id)
    /\ e.type = "number" => TagStripped(e.id, e.number)

\* entries of both types, one of an id that carries the tag twice
C4_Witness ==
  /\ \E e \in AsSet(allEntries) : e.type = "hidden"
  /\ \E e \in AsSet(allEntries) : e.type = "number" /\ e.id = IdPhone
  /\ \E e \in AsSet(allEntries) : e.type = "number" /\ e.id = IdDouble

\* the /export request passed the payload checks of lines 251-255
PayloadAccepted(req) ==
  /\ Truthy(req.payload)
  /\ ParsedPayload(req.payload).t # "syntaxerror"
  /\ IsNonEmptyArray(ParsedPayload(req.payload))

\* C5: an /export request rejected by validation (a 400 answer) has performed
\* no file-system operation, and a request with an accepted payload and an
\* unsupported format is answered 400 whatever the storage does.
C5_ValidationBeforeFileIO ==
  /\ (exportRes.kind = "status" /\ exportRes.status = 400) => fsOps = <<>>
  /\ (/\ exportPc = "done"
      /\ exportRes.kind = "status"
      /\ exportRes.status # 403
      /\ PayloadAccepted(exportReq)
      /\ IsString(Or(exportReq.format, Str(FmtCsv)))
      /\ ~Supported(FormatOf(exportReq))) => exportRes.status = 400

NoDuplicates(seq) == \A i, j \in 1..Len(seq) : seq[i] = seq[j] => i = j
KeysUsed(chat) == chat.participants.t = "maplike" /\ chat.participants.keys # <<>>
NoShapeMatches(chat) ==
  /\ chat.participants.t \notin {"array", "maplike", "plain"}
  /\ ~(Truthy(chat.groupMetadata) /\ chat.groupMetadata.participants.t = "array")

\* C6 as stated: for every container shape the collection step raises no
\* error and yields canonical identifier strings, none falsy, none twice,
\* and nothing when no shape matches.
C6_CollectYieldsIdStrings ==
  collectOut # NoChat =>
    /\ collectOut.ok
    /\ \A i \in 1..Len(collectOut.ids) : IsString(collectOut.ids[i]) /\ Truthy(collectOut.ids[i])
    /\ NoDuplicates(collectOut.ids)
    /\ NoShapeMatches(collectIn) => collectOut.ids = <<>>

\* C6 amended: for every container shape the collection step raises no error
\* and yields values none of which is falsy and none of which occurs twice,
\* and nothing when no shape matches; the values are identifier strings
\* unless they are the keys of a keyed collection, which are taken as they
\* are, a key that is no string included.
C6_CollectYieldsTruthyUnique ==
  collectOut # NoChat =>
    /\ collectOut.ok
    /\ \A i \in 1..Len(collectOut.ids) : Truthy(collectOut.ids[i])
    /\ ~KeysUsed(collectIn) => \A i \in 1..Len(collectOut.ids) : IsString(collectOut.ids[i])
    /\ KeysUsed(collectIn) =>
         AsSet(collectOut.ids) = {k \in AsSet(collectIn.participants.keys) : Truthy(k)}
    /\ NoDuplicates(collectOut.ids)
    /\ NoShapeMatches(collectIn) => collectOut.ids = <<>>

\* a keyed collection with a key that is no string, collected
C6_Witness ==
  /\ collectOut # NoChat
  /\ KeysUsed(collectIn)
  /\ \E i \in 1..Len(collectOut.ids) : ~IsString(collectOut.ids[i])

\* an entry without its name
Unnamed(e) ==
  IF "number" \in DOMAIN e
  THEN [groupId |-> e.groupId, groupName |-> e.groupName, number |-> e.number,
        id |-> e.id, type |-> e.type]
  ELSE [groupId |-> e.groupId, groupName |-> e.groupName, id |-> e.id, type |-> e.type]

\* a render that replaced a render of the same selection, the same groups
\* having been fetched in both runs
Repeated ==
  /\ pc = "done"
  /\ response.kind = "render"
  /\ prev.kind = "render"
  /\ \A i \in 1..Len(log) : prev.log[i].failed = log[i].failed

\* C7 as stated: the two renders hold the same set of entries, whatever the
\* contact lookups did in each run.
C7_SameEntriesWhateverLookups ==
  Repeated => AsSet(prev.all) = AsSet(response.combined.all)

\* C7 amended: the two renders hold the same set of entries once each entry's
\* name is left out, and the same set of entries when the same lookups
\* succeeded in both runs.
C7_SameEntriesUpToName ==
  Repeated =>
    /\ {Unnamed(e) : e \in AsSet(prev.all)} = {Unnamed(e) : e \in AsSet(response.combined.all)}
    /\ (\A i \in 1..Len(log) : prev.log[i].ok = log[i].ok) =>
         AsSet(prev.all) = AsSet(response.combined.all)

\* two renders of the same selection that differ in a name
C7_Witness ==
  /\ Repeated
  /\ AsSet(prev.all) # AsSet(response.combined.all)

\* C8: while a chat fetch is in flight no contact lookup is; every contact
\* lookup in flight belongs to the group being processed, and there are at
\* most as many as that group has collected participants.
C8_OneGroupAtATime ==
  /\ pc = "fetching" => inflight = {}
  /\ \A tok \in inflight : pc = "resolving" /\ tok[1] = idx
  /\ Cardinality(inflight) <= Len(rawParticipants)

\* two lookups of the second group in flight at once
C8_Witness ==
  /\ pc = "resolving"
  /\ idx = 2
  /\ Cardinality(inflight) = 2

\* C9: in a rendered response combined.numbers and combined.hidden are
\* subsequences of combined.all, hold entries of type number and of type
\* hidden only, share no entry, and together hold as many entries as all.
C9_CombinedViewsPartitionAll ==
  response.kind = "render" =>
    LET c == response.combined IN
    /\ IsSubseq(c.numbers, c.all)
    /\ IsSubseq(c.hidden, c.all)
    /\ \A e \in AsSet(c.numbers) : e.type = "number"
    /\ \A e \in AsSet(c.hidden) : e.type = "hidden"
    /\ AsSet(c.numbers) \cap AsSet(c.hidden) = {}
    /\ Len(c.numbers) + Len(c.hidden) = Len(c.all)
    /\ AsSet(c.numbers) \cup AsSet(c.hidden) = AsSet(c.all)

\* a render with entries of both types
C9_Witness ==
  /\ response.kind = "render"
  /\ response.combined.numbers # <<>>
  /\ response.combined.hidden # <<>>

\* C10: when every collaborator call settles, a request that entered its loop
\* is answered with a render, whatever fetches and lookups failed.
C10_EveryRequestAnswered ==
  (pc \in {"fetching", "resolving"}) ~> (pc = "done" /\ response.kind = "render")

\* an answered request one of whose fetches and one of whose lookups failed
C10_Witness ==
  /\ pc = "done"
  /\ response.kind = "render"
  /\ \E i \in 1..Len(log) : log[i].failed
  /\ \E i \in 1..Len(log) :
       ~log[i].failed /\ log[i].ok = {} /\ response.perGroupResults[i].hiddenIds # <<>>

====
